---------------------------- MODULE Spec2Model ----------------------------
(***************************************************************************)
(* A model of ticket.py: the ticket lifecycle (start, resume, stop, kill)  *)
(* over one git working copy, its stash list and the screen sessions.      *)
(*                                                                         *)
(* The durable state is the state of the external tools: the checked-out   *)
(* branch, the ticket branches, the uncommitted changes of the working     *)
(* copy, the stash list and the running sessions.  Every lifecycle         *)
(* operation is one action; inside it the shell commands are applied one   *)
(* after the other to a record `w` (the "world"), exactly in the order of  *)
(* the source, and an exit code that is not the expected one raises        *)
(* ShellError, after which no further command is applied.                  *)
(***************************************************************************)
EXTENDS Integers, Sequences, FiniteSets, TLC

\* ----------------------------------------------------------------- bounds
\* Tickets are 1..MaxTicket.
MaxTicket == 2
\* Number of stash entries created in a run (each `git stash` that saves).
MaxSnaps == 2

\* Length of the stash lists a generator is iterated over on its own.
MaxLocate == 3

Tickets == 1..MaxTicket

VARIABLES
  branch,     \* the checked-out branch (a branch name)
  branches,   \* the ticket branches that exist (branch names)
  tip,        \* tip[t]: branch #t holds commits of its own on top of the trunk tip
  wc,         \* uncommitted state of the working copy: [changes, unmerged]
  stash,      \* the stash list, newest first (stash@{0} is stash[1])
  sessions,   \* names of the running screen sessions
  made,       \* stash entries created so far (source of fresh entry serials)
  last,       \* what the last step did: an invocation's commands, exit and exec
  gen         \* a generator stash_list(t) iterated on its own, and its consumer

vars == <<branch, branches, tip, wc, stash, sessions, made, last, gen>>

\* ------------------------------------------------------------ names
\* The trunk branch, as resume() compares it: 'master'.
Trunk == <<"master">>

\* "#%s" % ticket : the name of the ticket's branch and of its session.
BranchName(t) == <<"#", t>>

IsTicketBranch(b) == \E t \in Tickets : b = BranchName(t)

Clean == [changes |-> {}, unmerged |-> FALSE]

NoExec == <<>>

\* ------------------------------------------------------------ shell()
\* Exit code of a command that fails for a reason outside the model (a lock
\* file, the network, a fatal git error).
Fatal(w) == [code |-> 128, w |-> w]

Ok(w) == [code |-> 0, w |-> w]

\* shell(command, expectedReturnCode): runs the command (its natural outcome
\* is `out`, unless it is the failAt-th command of the invocation, which
\* fails fatally), records it, and raises ShellError when the exit code is
\* not the expected one.  Once an exception is raised nothing more runs.
shell_noraise(w, cmd, expected, out, failAt) ==
  IF w.raised THEN w
  ELSE LET r == IF Len(w.log) + 1 = failAt THEN Fatal(w) ELSE out
       IN  [r.w EXCEPT !.log = Append(w.log, [cmd |-> cmd, code |-> r.code,
                                               expected |-> expected])]

shell(w, cmd, expected, out, failAt) ==
  IF w.raised THEN w
  ELSE LET r == IF Len(w.log) + 1 = failAt THEN Fatal(w) ELSE out
       IN  [r.w EXCEPT !.log = Append(w.log, [cmd |-> cmd, code |-> r.code,
                                               expected |-> expected]),
                       !.raised = (r.code # expected)]

\* ------------------------------------------------------------ git, screen
\* `git add .` : stages everything, which also marks unmerged paths resolved.
GitAdd(w) == Ok([w EXCEPT !.wc.unmerged = FALSE])

\* `git stash` : with nothing to save it says so and exits 0; otherwise the
\* changes become a new entry "WIP on <branch>: ..." at the head of the list
\* and the working copy is clean.  It refuses an index with unmerged paths.
GitStash_keep(w) ==
  IF w.wc.unmerged THEN [code |-> 1, w |-> w]
  ELSE IF w.wc.changes = {} THEN Ok(w)
  ELSE Ok([w EXCEPT !.stash = <<[on |-> w.branch, changes |-> w.wc.changes,
                                 serial |-> w.made + 1]>> \o w.stash,
                    !.made = w.made + 1])

\* A stash that saves an entry even when there is nothing to save.
GitStash_empty(w) ==
  IF w.wc.unmerged THEN [code |-> 1, w |-> w]
  ELSE Ok([w EXCEPT !.stash = <<[on |-> w.branch, changes |-> w.wc.changes,
                                 serial |-> w.made + 1]>> \o w.stash,
                    !.made = w.made + 1,
                    !.wc = Clean])

GitStash(w) ==
  IF w.wc.unmerged THEN [code |-> 1, w |-> w]
  ELSE IF w.wc.changes = {} THEN Ok(w)
  ELSE Ok([w EXCEPT !.stash = <<[on |-> w.branch, changes |-> w.wc.changes,
                                 serial |-> w.made + 1]>> \o w.stash,
                    !.made = w.made + 1,
                    !.wc = Clean])

\* `git checkout master` : switches the branch; uncommitted changes are carried
\* along; an index with unmerged paths is refused.
GitCheckout(w, b) ==
  IF w.wc.unmerged THEN [code |-> 1, w |-> w]
  ELSE Ok([w EXCEPT !.branch = b])

\* `git svn rebase` : updates trunk from upstream; nothing of the modelled
\* state changes.
GitSvnRebase(w) == Ok(w)

\* Whether HEAD holds commits on top of the trunk tip.
HeadTip(w) ==
  IF w.branch = Trunk THEN FALSE
  ELSE w.tip[CHOOSE u \in Tickets : w.branch = BranchName(u)]

\* `git checkout -B '#t'` : creates the branch at HEAD, or resets it to HEAD
\* when it exists, and checks it out.
GitCheckoutB(w, t) ==
  IF w.wc.unmerged THEN [code |-> 1, w |-> w]
  ELSE Ok([w EXCEPT !.branch = BranchName(t),
                    !.branches = w.branches \cup {BranchName(t)},
                    !.tip[t] = HeadTip(w)])

\* The entry a stash reference <<n>> (stash@{n}) names.
Remove(s, i) == SubSeq(s, 1, i - 1) \o SubSeq(s, i + 1, Len(s))

\* `git stash pop <ref> && git reset HEAD .` : pop applies the entry and drops
\* it; on a conflict it exits 1, leaves the conflicted merge in the working
\* copy and keeps the entry, and reset does not run.  After a pop that
\* applied, reset unstages; its exit code is `resetCode` (1 with older gits
\* when unstaged changes remain, 0 otherwise).
GitStashPopReset(w, ref, popOk, resetCode) ==
  LET e == w.stash[ref[1] + 1] IN
  IF popOk
  THEN [code |-> resetCode,
        w |-> [w EXCEPT !.wc = [changes |-> w.wc.changes \cup e.changes,
                                unmerged |-> FALSE],
                        !.stash = Remove(w.stash, ref[1] + 1),
                        !.popped = Append(w.popped, e)]]
  ELSE [code |-> 1,
        w |-> [w EXCEPT !.wc = [changes |-> w.wc.changes \cup e.changes,
                                unmerged |-> TRUE]]]

\* `git stash drop <ref>` : removes the entry.
GitStashDrop(w, ref) ==
  Ok([w EXCEPT !.stash = Remove(w.stash, ref[1] + 1),
               !.dropped = Append(w.dropped, w.stash[ref[1] + 1])])

\* `screen -S '#t' -X quit` : ends the session; exits 1 when there is none.
ScreenQuit(w, t) ==
  IF BranchName(t) \in w.sessions
  THEN Ok([w EXCEPT !.sessions = w.sessions \ {BranchName(t)}])
  ELSE [code |-> 1, w |-> w]

\* `git branch -D '#t'` : deletes the branch, merged or not; exits 1 when the
\* branch does not exist or is the checked-out one.
GitBranchD(w, t) ==
  IF BranchName(t) \in w.branches /\ w.branch # BranchName(t)
  THEN Ok([w EXCEPT !.branches = w.branches \ {BranchName(t)}, !.tip[t] = FALSE])
  ELSE [code |-> 1, w |-> w]

\* ------------------------------------------------------------ stash_list
\* The pipeline of stash_list: the entries "WIP on #t:", the first of them,
\* cut down to its reference; <<>> is the empty output.
RECURSIVE FirstTagged(_, _, _)
FirstTagged(s, t, i) ==
  IF i > Len(s) THEN 0
  ELSE IF s[i].on = BranchName(t) THEN i
  ELSE FirstTagged(s, t, i + 1)

\* A pipeline that takes the last of the entries instead (tail -1).
RECURSIVE LastTagged(_, _, _)
LastTagged(s, t, i) ==
  IF i < 1 THEN 0
  ELSE IF s[i].on = BranchName(t) THEN i
  ELSE LastTagged(s, t, i - 1)

\* A pipeline without the grep: the newest entry, whatever its branch.
StashQuery_any(w, t) ==
  IF w.stash = <<>> THEN <<>> ELSE <<0>>

StashQuery_oldest(w, t) ==
  LET i == LastTagged(w.stash, t, Len(w.stash))
  IN  IF i = 0 THEN <<>> ELSE <<i - 1>>

StashQuery(w, t) ==
  LET i == FirstTagged(w.stash, t, 1)
  IN  IF i = 0 THEN <<>> ELSE <<i - 1>>

\* ------------------------------------------------------------ stop()
stop(w, failAt) ==
  LET w1 == shell(w,  <<"git add .">>,           0, GitAdd(w), failAt)
      w2 == shell(w1, <<"git stash">>,           0, GitStash(w1), failAt)
      w3 == shell(w2, <<"git checkout master">>, 0, GitCheckout(w2, Trunk), failAt)
      w4 == shell(w3, <<"git svn rebase">>,      0, GitSvnRebase(w3), failAt)
  IN  w4

\* One step of the generator stash_list(ticket): the query, and the reference
\* it yields (<<>> when the generator returns).
stash_list(w, t, failAt) ==
  LET w1 == shell(w, <<"git stash list", BranchName(t)>>, 0, Ok(w), failAt)
  IN  [w |-> w1, ref |-> IF w1.raised THEN <<>> ELSE StashQuery(w1, t)]

\* execlp('screen', 'screen (ticket)', flag, name): the process becomes screen.
\* -DRR reattaches the session and creates it when there is none; -r only
\* reattaches.
execlp(w, flag, name) ==
  IF w.raised THEN w
  ELSE [w EXCEPT !.exec = <<flag, name>>,
                 !.sessions = IF flag = "-DRR" THEN w.sessions \cup {name}
                              ELSE w.sessions]

\* ------------------------------------------------------------ start()
\* start() that switches to the ticket branch without parking first.
start_nostop(w, t, inRoot, failAt, popOk, resetCode) ==
  IF ~inRoot THEN [w EXCEPT !.exit = 1, !.inRoot = FALSE]
  ELSE
    LET w2 == shell(w, <<"git checkout -B", BranchName(t)>>, 0,
                    GitCheckoutB(w, t), failAt)
        g  == stash_list(w2, t, failAt)
        w3 == IF g.ref = <<>> THEN g.w
              ELSE shell(g.w, <<"git stash pop", g.ref>>, 1,
                         GitStashPopReset(g.w, g.ref, popOk, resetCode), failAt)
    IN  execlp(w3, "-DRR", BranchName(t))

\* start() that attaches the session without checking the branch out.
start_nocheckout(w, t, inRoot, failAt, popOk, resetCode) ==
  IF ~inRoot THEN [w EXCEPT !.exit = 1, !.inRoot = FALSE]
  ELSE LET w1 == stop(w, failAt)
           g  == stash_list(w1, t, failAt)
           w3 == IF g.ref = <<>> THEN g.w
                 ELSE shell(g.w, <<"git stash pop", g.ref>>, 1,
                            GitStashPopReset(g.w, g.ref, popOk, resetCode), failAt)
       IN  execlp(w3, "-DRR", BranchName(t))

\* start() without the restore step.
start_norestore(w, t, inRoot, failAt, popOk, resetCode) ==
  IF ~inRoot THEN [w EXCEPT !.exit = 1, !.inRoot = FALSE]
  ELSE LET w1 == stop(w, failAt)
           w2 == shell(w1, <<"git checkout -B", BranchName(t)>>, 0, GitCheckoutB(w1, t), failAt)
       IN  execlp(w2, "-DRR", BranchName(t))

\* start() that looks at the working directory only after it has parked.
start_latecheck(w, t, inRoot, failAt, popOk, resetCode) ==
  LET w1 == stop(w, failAt)
  IN  IF w1.raised THEN w1
      ELSE IF ~inRoot THEN [w1 EXCEPT !.exit = 1, !.inRoot = FALSE]
      ELSE
        LET w2 == shell(w1, <<"git checkout -B", BranchName(t)>>, 0,
                        GitCheckoutB(w1, t), failAt)
            g  == stash_list(w2, t, failAt)
            w3 == IF g.ref = <<>> THEN g.w
                  ELSE shell(g.w, <<"git stash pop", g.ref>>, 1,
                             GitStashPopReset(g.w, g.ref, popOk, resetCode), failAt)
        IN  execlp(w3, "-DRR", BranchName(t))

start(w, t, inRoot, failAt, popOk, resetCode) ==
  IF ~inRoot THEN [w EXCEPT !.exit = 1, !.inRoot = FALSE]
  ELSE
    LET w1 == stop(w, failAt)
        w2 == shell(w1, <<"git checkout -B", BranchName(t)>>, 0,
                    GitCheckoutB(w1, t), failAt)
        g  == stash_list(w2, t, failAt)
        w3 == IF g.ref = <<>> THEN g.w
              ELSE shell(g.w, <<"git stash pop", g.ref>>, 1,
                         GitStashPopReset(g.w, g.ref, popOk, resetCode), failAt)
    IN  execlp(w3, "-DRR", BranchName(t))

\* ------------------------------------------------------------ resume()
\* resume() without the test for master.
resume_nocheck(w, failAt) ==
  LET w1 == shell(w, <<"git branch">>, 0, Ok(w), failAt)
      screen == w1.branch
  IN  IF w1.raised THEN w1
      ELSE execlp(w1, "-r", screen)

resume(w, failAt) ==
  LET w1 == shell(w, <<"git branch">>, 0, Ok(w), failAt)
      screen == w1.branch
  IN  IF w1.raised THEN w1
      ELSE IF screen = Trunk THEN [w1 EXCEPT !.exit = 2]
      ELSE execlp(w1, "-r", screen)

\* ------------------------------------------------------------ kill()
\* for stash in stash_list(ticket): shell('git stash drop ' + stash)
\* A loop that drops the first reference only.
Drain_once(w, t, failAt) ==
  IF w.raised THEN w
  ELSE LET g == stash_list(w, t, failAt)
       IN  IF g.ref = <<>> THEN g.w
           ELSE shell(g.w, <<"git stash drop", g.ref>>, 0,
                      GitStashDrop(g.w, g.ref), failAt)

\* A loop that drops the oldest entry of the ticket at each step.
RECURSIVE Drain_oldest(_, _, _)
Drain_oldest(w, t, failAt) ==
  IF w.raised THEN w
  ELSE LET g == stash_list(w, t, failAt)
           r == StashQuery_oldest(g.w, t)
       IN  IF g.ref = <<>> THEN g.w
           ELSE Drain_oldest(shell(g.w, <<"git stash drop", r>>, 0,
                                   GitStashDrop(g.w, r), failAt), t, failAt)

RECURSIVE Drain(_, _, _)
Drain(w, t, failAt) ==
  IF w.raised THEN w
  ELSE LET g == stash_list(w, t, failAt)
       IN  IF g.ref = <<>> THEN g.w
           ELSE Drain(shell(g.w, <<"git stash drop", g.ref>>, 0,
                            GitStashDrop(g.w, g.ref), failAt), t, failAt)

\* kill() that does not look at the exit code of `git branch -D`.
kill_tolerant(w, t, failAt) ==
  LET w1 == stop(w, failAt)
      w2 == shell(w1, <<"screen -X quit", BranchName(t)>>, 0, ScreenQuit(w1, t), failAt)
      w3 == shell_noraise(w2, <<"git branch -D", BranchName(t)>>, 0, GitBranchD(w2, t), failAt)
  IN  Drain(w3, t, failAt)

kill(w, t, failAt) ==
  LET w1 == stop(w, failAt)
      w2 == shell(w1, <<"screen -X quit", BranchName(t)>>, 0, ScreenQuit(w1, t), failAt)
      w3 == shell(w2, <<"git branch -D", BranchName(t)>>, 0, GitBranchD(w2, t), failAt)
  IN  Drain(w3, t, failAt)

\* ------------------------------------------------------------ state
World ==
  [branch |-> branch, branches |-> branches, tip |-> tip, wc |-> wc,
   stash |-> stash, sessions |-> sessions, made |-> made,
   log |-> <<>>, raised |-> FALSE, popped |-> <<>>, dropped |-> <<>>,
   exec |-> NoExec, exit |-> 0, inRoot |-> TRUE]

\* No invocation of the tool is the last step.
Idle == [op |-> "none", ticket |-> 0, log |-> <<>>, raised |-> FALSE,
         popped |-> <<>>, dropped |-> <<>>, exec |-> NoExec, exit |-> 0,
         inRoot |-> TRUE]

\* The invocation ran to its end (or to its exception) and left `w`.
Apply(w, op, t) ==
  /\ last = Idle
  /\ branch' = w.branch
  /\ branches' = w.branches
  /\ tip' = w.tip
  /\ wc' = w.wc
  /\ stash' = w.stash
  /\ sessions' = w.sessions
  /\ made' = w.made
  /\ last' = [op |-> op, ticket |-> t, log |-> w.log, raised |-> w.raised,
              popped |-> w.popped, dropped |-> w.dropped,
              exec |-> w.exec, exit |-> IF w.raised THEN 1 ELSE w.exit,
              inRoot |-> w.inRoot]
  /\ UNCHANGED gen

\* No generator is iterated on its own.
NoGen == [ticket |-> 0, initial |-> <<>>, yielded |-> <<>>, entries |-> <<>>,
          pending |-> FALSE, peeked |-> FALSE, removed |-> 0, done |-> TRUE]

Init ==
  /\ branch = Trunk
  /\ branches = {}
  /\ tip = [t \in Tickets |-> FALSE]
  /\ wc = Clean
  /\ stash = <<>>
  /\ sessions = {}
  /\ made = 0
  /\ last = Idle
  /\ gen = NoGen

\* The invocation may save the working copy only while entries are left.
CanStash == wc.changes # {} => made < MaxSnaps

\* The commands an invocation issues when none fails fatally: the ordinals at
\* which a fatal failure can strike.
Ordinals(w) == 1..Len(w.log)

\* `ticket start <t>`
Start ==
  \E t \in Tickets :
    /\ CanStash
    /\ \/ Apply(start(World, t, FALSE, 0, TRUE, 0), "start", t)
       \/ \E popOk \in BOOLEAN, resetCode \in {0, 1} :
            Apply(start(World, t, TRUE, 0, popOk, resetCode), "start", t)
       \/ \E failAt \in Ordinals(start(World, t, TRUE, 0, TRUE, 1)) :
            Apply(start(World, t, TRUE, failAt, TRUE, 1), "start", t)

\* `ticket resume`
Resume ==
  \E failAt \in 0..1 :
    Apply(resume(World, failAt), "resume", 0)

\* `ticket stop`
Stop ==
  /\ CanStash
  /\ \E failAt \in {0} \cup Ordinals(stop(World, 0)) :
       Apply(stop(World, failAt), "stop", 0)

\* `ticket kill <t>`
Kill ==
  \E t \in Tickets :
    /\ CanStash
    /\ \E failAt \in {0} \cup Ordinals(kill(World, t, 0)) :
         Apply(kill(World, t, failAt), "kill", t)

\* The operator edits files in the working copy.  A change is known by the
\* branch it was made on and by the number of stash entries that existed
\* before it, so that what is edited after a snapshot differs from what the
\* snapshot holds.
Edit ==
  /\ last = Idle
  /\ [on |-> branch, n |-> made] \notin wc.changes
  /\ wc' = [wc EXCEPT !.changes = @ \cup {[on |-> branch, n |-> made]}]
  /\ UNCHANGED <<branch, branches, tip, stash, sessions, made, last, gen>>

\* The operator commits the changes of the working copy on the ticket branch.
Commit ==
  /\ last = Idle
  /\ \E t \in Tickets :
       /\ branch = BranchName(t)
       /\ tip' = [tip EXCEPT ![t] = TRUE]
  /\ wc.changes # {}
  /\ ~wc.unmerged
  /\ wc' = Clean
  /\ UNCHANGED <<branch, branches, stash, sessions, made, last, gen>>

\* A session ends by itself (the operator leaves its shell).
SessionEnds ==
  \E n \in sessions :
    /\ last = Idle
    /\ sessions' = sessions \ {n}
    /\ UNCHANGED <<branch, branches, tip, wc, stash, made, last, gen>>

\* The invocation's process is over (it exited, or the operator detached the
\* session it became); one invocation runs at a time.
Return ==
  /\ last # Idle
  /\ last' = Idle
  /\ UNCHANGED <<branch, branches, tip, wc, stash, sessions, made, gen>>

Next == Start \/ Resume \/ Stop \/ Kill \/ Edit \/ SessionEnds \/ Return

\* The lifecycle with an operator who edits but does not commit.
Spec == Init /\ [][Next]_vars

\* The lifecycle with an operator who also commits on ticket branches.
NextCommits == Next \/ Commit

SpecCommits == Init /\ [][NextCommits]_vars

\* ------------------------------------------------------------ the generator
\* A stash list as the lifecycle leaves it: entries tagged with trunk or with
\* a ticket branch, the newest with the highest serial.
StashOf(tags) ==
  [i \in 1..Len(tags) |->
     [on |-> tags[i],
      changes |-> {[on |-> tags[i], n |-> Len(tags) - i]},
      serial |-> Len(tags) - i + 1]]

\* stash_list(t) is created over any such stash list, for a ticket that has
\* entries or has none.
InitLocate ==
  /\ branch = Trunk
  /\ branches = {}
  /\ tip = [t \in Tickets |-> FALSE]
  /\ wc = Clean
  /\ sessions = {}
  /\ last = Idle
  /\ \E n \in 0..MaxLocate :
       \E tags \in [1..n -> {Trunk} \cup {BranchName(u) : u \in Tickets}] :
         /\ stash = StashOf(tags)
         /\ made = n
         /\ \E t \in 1..(MaxTicket + 1) :
              gen = [ticket |-> t, initial |-> StashOf(tags), yielded |-> <<>>,
                     entries |-> <<>>, pending |-> FALSE, peeked |-> FALSE,
                     removed |-> 0, done |-> FALSE]

\* The consumer asks the generator for its next element: the loop body of
\* stash_list runs once, yields the reference it finds or returns.
LocateNext ==
  /\ ~gen.done
  /\ Len(gen.yielded) <= Len(gen.initial)
  /\ LET g == stash_list(World, gen.ticket, 0)
     IN  gen' = IF g.ref = <<>>
                THEN [gen EXCEPT !.done = TRUE, !.pending = FALSE]
                ELSE [gen EXCEPT !.yielded = Append(@, g.ref),
                                 !.entries = Append(@, stash[g.ref[1] + 1]),
                                 !.pending = TRUE,
                                 !.peeked = @ \/ gen.pending]
  /\ UNCHANGED <<branch, branches, tip, wc, stash, sessions, made, last>>

\* The consumer drops the entry the generator yielded last, as the loop of
\* kill does.
ConsumerDrop ==
  /\ ~gen.done
  /\ gen.pending
  /\ stash' = GitStashDrop(World, gen.yielded[Len(gen.yielded)]).w.stash
  /\ gen' = [gen EXCEPT !.pending = FALSE, !.removed = @ + 1]
  /\ UNCHANGED <<branch, branches, tip, wc, sessions, made, last>>

NextLocate == LocateNext \/ ConsumerDrop

SpecLocate == InitLocate /\ [][NextLocate]_vars

\* ------------------------------------------------------------ vocabulary
\* The entries of a stash list tagged with ticket t's branch, newest first.
Tagged(s, t) == SelectSeq(s, LAMBDA e : e.on = BranchName(t))

\* The stash list as the stop() at the head of start and kill leaves it when
\* its commands succeed: the working copy's changes, if any, saved on top.
AfterStop ==
  IF wc.changes = {} THEN stash
  ELSE <<[on |-> branch, changes |-> wc.changes, serial |-> made + 1]>> \o stash

\* A stash list without the entry e.
Without(s, e) == SelectSeq(s, LAMBDA x : x # e)

\* The commands of the last invocation whose text starts with `name`.
Issued(name) == {i \in 1..Len(last.log) : last.log[i].cmd[1] = name}

\* The last invocation ran to its end: it raised nothing.
Completed(op) == last.op = op /\ ~last.raised

\* ------------------------------------------------------------ C1
\* C1: whenever start(t) completes (it hands over to the session) and a
\* snapshot tagged t existed when it reached its restore step, the working
\* copy's uncommitted state equals the newest snapshot tagged t and the stash
\* list is the one of the restore step with exactly that snapshot removed.
C1_StartRestoresNewest ==
  [][\A t \in Tickets :
       (last'.op = "start" /\ last'.ticket = t /\ last'.exec # NoExec
          /\ Tagged(AfterStop, t) # <<>>)
       => LET e == Head(Tagged(AfterStop, t))
          IN  /\ wc' = [changes |-> e.changes, unmerged |-> FALSE]
              /\ stash' = Without(AfterStop, e)]_vars

\* ------------------------------------------------------------ C2
\* C2: in every state between invocations, aborted ones included, if trunk is
\* checked out the working copy holds no change made on a ticket branch, and
\* what a stash entry holds was made on the branch the entry is tagged with.
C2_TrunkHoldsNoTicketChanges ==
  branch = Trunk =>
    /\ \A c \in wc.changes : ~IsTicketBranch(c.on)
    /\ \A i \in 1..Len(stash) : \A c \in stash[i].changes : c.on = stash[i].on

\* Trunk is checked out after a start that aborted once its stop() had parked
\* a ticket's changes as the newest snapshot.
C2_Witness ==
  /\ last.op = "start" /\ last.raised
  /\ branch = Trunk
  /\ wc = Clean
  /\ stash # <<>> /\ IsTicketBranch(stash[1].on) /\ stash[1].changes # {}
  /\ stash[1].serial = made

\* ------------------------------------------------------------ C3
\* C3: when the stash pop of start(t) fails on a conflict (the working copy is
\* left with unmerged paths), start(t) raises, does not hand over to the
\* session, and the snapshot is still in the stash list.
C3_ConflictSurfaced ==
  (last.op = "start" /\ Issued("git stash pop") # {} /\ wc.unmerged)
    => /\ last.raised
       /\ last.exec = NoExec
       /\ Tagged(stash, last.ticket) # <<>>


\* ------------------------------------------------------------ C4
\* C4: when kill(t) completes, it has dropped every snapshot tagged t, the
\* one its own stop() created included, nothing tagged t is left in the stash
\* list, the other entries are all there, and stash_list(t) finds nothing.
C4_KillDrainsAll ==
  [][\A t \in Tickets :
       (last'.op = "kill" /\ last'.ticket = t /\ ~last'.raised)
       => /\ last'.dropped = Tagged(AfterStop, t)
          /\ Tagged(stash', t) = <<>>
          /\ stash' = SelectSeq(AfterStop, LAMBDA e : e.on # BranchName(t))
          /\ StashQuery([stash |-> stash'], t) = <<>>]_vars

\* A kill that completed after dropping two snapshots of its ticket.
C4_Witness == Completed("kill") /\ Len(last.dropped) = 2

\* ------------------------------------------------------------ C5
\* C5: when `screen -X quit` finds no session (exit code 1), kill(t) does not
\* abort there: it goes on to issue `git branch -D`.
C5_KillToleratesMissingSession ==
  \A i \in Issued("screen -X quit") :
    (last.op = "kill" /\ last.log[i].code = 1)
      => /\ Issued("git branch -D") # {}
         /\ last.log[i] # last.log[Len(last.log)]

\* ------------------------------------------------------------ C6
\* C6: no ticket branch is ever checked out over uncommitted changes made on
\* another ticket's branch, and a start that reaches `git checkout -B` has
\* issued the four commands of stop() before it, each exiting 0.
StopCommands ==
  << <<"git add .">>, <<"git stash">>, <<"git checkout master">>, <<"git svn rebase">> >>

C6_OneTicketMaterialized ==
  /\ \A t \in Tickets, u \in Tickets :
       (t # u /\ branch = BranchName(t))
         => \A c \in wc.changes : c.on # BranchName(u)
  /\ last.op = "start" =>
       \A i \in Issued("git checkout -B") :
         /\ i = Len(StopCommands) + 1
         /\ \A j \in 1..Len(StopCommands) :
              last.log[j].cmd = StopCommands[j] /\ last.log[j].code = 0

\* start(t) switched from ticket u, whose changes it parked as the newest
\* snapshot, to ticket t, whose changes it restored.
C6_Witness ==
  /\ Completed("start")
  /\ branch = BranchName(last.ticket)
  /\ wc.changes # {}
  /\ last.popped # <<>>
  /\ stash # <<>>
  /\ stash[1].serial = made
  /\ IsTicketBranch(stash[1].on)
  /\ stash[1].on # branch

\* ------------------------------------------------------------ C7
\* The references stash@{n} of the entries of s tagged with ticket t's branch.
RECURSIVE RefsTagged(_, _, _)
RefsTagged(s, t, i) ==
  IF i > Len(s) THEN <<>>
  ELSE (IF s[i].on = BranchName(t) THEN << <<i - 1>> >> ELSE <<>>)
       \o RefsTagged(s, t, i + 1)

IsPrefix(a, b) == Len(a) <= Len(b) /\ SubSeq(b, 1, Len(a)) = a

\* C7 as stated: iterated with no stash operation in between, stash_list(t)
\* yields the references of the entries tagged #t, newest first, each once,
\* and then ends.
C7_LocateYieldsEachOnce ==
  gen.removed = 0 =>
    /\ IsPrefix(gen.yielded, RefsTagged(gen.initial, gen.ticket, 1))
    /\ gen.done => gen.yielded = RefsTagged(gen.initial, gen.ticket, 1)

\* C7 amended: iterated by a consumer that removes each yielded entry before
\* it asks for the next (as kill does), stash_list(t) yields one reference
\* for each entry tagged #t, newest first, each entry once - every time the
\* reference of the newest entry tagged #t still in the list - and then
\* ends, with nothing yielded for a ticket without entries; a consumer that
\* removes nothing is given the same reference again.
C7_LocateDrained ==
  /\ ~gen.peeked =>
       /\ IsPrefix(gen.entries, Tagged(gen.initial, gen.ticket))
       /\ \A k \in 1..Len(gen.yielded) :
            gen.yielded[k] = <<RefsTagged(gen.initial, gen.ticket, 1)[k][1] - (k - 1)>>
       /\ gen.done => gen.entries = Tagged(gen.initial, gen.ticket)
  /\ (gen.removed = 0 /\ Len(gen.yielded) >= 2) => gen.yielded[2] = gen.yielded[1]

\* The generator ended after it yielded the two entries of its ticket, each
\* dropped in turn, in a list that held one entry of another ticket too.
C7_Witness ==
  /\ gen.done /\ ~gen.peeked
  /\ Len(gen.entries) = 2
  /\ gen.entries[1].serial > gen.entries[2].serial
  /\ \E u \in Tickets : u # gen.ticket /\ Len(Tagged(gen.initial, u)) = 1

\* ------------------------------------------------------------ C8
\* C8: when `git branch -D` fails in kill(t), kill raises at that command and
\* has dropped nothing: the snapshots tagged t are those its stop() left.
C8_BranchDeleteFailurePropagates ==
  [][\A t \in Tickets :
       (/\ last'.op = "kill" /\ last'.ticket = t
        /\ \E i \in 1..Len(last'.log) :
             last'.log[i].cmd[1] = "git branch -D" /\ last'.log[i].code # 0)
       => /\ last'.raised
          /\ last'.log[Len(last'.log)].cmd[1] = "git branch -D"
          /\ last'.dropped = <<>>
          /\ Tagged(stash', t) = Tagged(AfterStop, t)]_vars

\* A kill whose `git branch -D` failed while a snapshot of its ticket exists.
C8_Witness ==
  /\ last.op = "kill"
  /\ \E i \in Issued("git branch -D") : last.log[i].code # 0
  /\ Tagged(stash, last.ticket) # <<>>

\* ------------------------------------------------------------ C9
\* C9: in every invocation a command whose exit code is not the expected one
\* is the last command issued, the invocation raises and hands over to no
\* session; and what the earlier commands did stays: after a failure of
\* `git checkout master` or `git svn rebase` the changes stop() stashed are
\* the newest snapshot and the working copy is clean, and after a stash pop
\* that applied but raised the popped changes are in the working copy and the
\* entry is gone.
C9_AbortAtFirstFailure ==
  [][last'.op \in {"start", "stop", "kill", "resume"} =>
       LET log == last'.log
           n == Len(log)
       IN  /\ \A i \in 1..n :
                log[i].code # log[i].expected
                  => i = n /\ last'.raised /\ last'.exec = NoExec
           /\ (last'.raised /\ last'.op # "resume" /\ n \in {3, 4} /\ wc.changes # {})
                => /\ stash' = AfterStop
                   /\ wc' = Clean
                   /\ branch' = IF n = 4 THEN Trunk ELSE branch
           /\ (last'.raised /\ n > 0 /\ log[n].cmd[1] = "git stash pop" /\ log[n].code = 0)
                => /\ Len(last'.popped) = 1
                   /\ wc' = [changes |-> last'.popped[1].changes, unmerged |-> FALSE]
                   /\ \A i \in 1..Len(stash') : stash'[i] # last'.popped[1]
                   /\ branch' = BranchName(last'.ticket)]_vars

\* A kill that raised in its loop after it had dropped a snapshot.
C9_Witness == last.op = "kill" /\ last.raised /\ last.dropped # <<>>

\* ------------------------------------------------------------ C10
\* C10: a resume() whose branch query succeeds issues no other command and
\* creates no session; on master it exits 2 and hands over to no session, on
\* any other branch it execs `screen -r` with the name of that branch.
C10_ResumeOnTrunkFails ==
  [][(last'.op = "resume" /\ ~last'.raised)
       => /\ sessions' = sessions
          /\ \A i \in 1..Len(last'.log) : last'.log[i].cmd = <<"git branch">>
          /\ IF branch = Trunk
             THEN last'.exit = 2 /\ last'.exec = NoExec
             ELSE last'.exit = 0 /\ last'.exec = <<"-r", branch>>]_vars

\* A resume on master that exited 2.
C10_Witness ==
  last.op = "resume" /\ branch = Trunk /\ last.exit = 2 /\ last.exec = NoExec

\* ------------------------------------------------------------ C11
\* C11: a start(t) invoked outside the workspace root issues no command at
\* all and leaves the branch, the branches, the working copy, the stash list
\* and the sessions as they were; it exits 1 and hands over to no session.
C11_StartOutsideRootRunsNothing ==
  [][(last'.op = "start" /\ ~last'.inRoot)
       => /\ last'.log = <<>>
          /\ last'.exec = NoExec
          /\ last'.exit = 1
          /\ UNCHANGED <<branch, branches, tip, wc, stash, sessions, made>>]_vars

\* A start outside the root while a ticket is active with changes that a
\* start in the root would have stashed.
C11_Witness ==
  /\ last.op = "start" /\ ~last.inRoot
  /\ IsTicketBranch(branch)
  /\ branch # BranchName(last.ticket)
  /\ wc.changes # {}

\* ------------------------------------------------------------ C12
\* C12: the exit code tells the outcome: 0 when nothing failed, 1 only for a
\* start outside the workspace root, 2 only for a resume on trunk, and after
\* a command failure the exit code of the command that failed.
C12_ExitCodeIdentifiesOutcome ==
  last.op \in {"start", "stop", "kill", "resume"} =>
    /\ last.exit = 1 => (last.op = "start" /\ ~last.inRoot)
    /\ last.exit = 2 => (last.op = "resume" /\ branch = Trunk /\ ~last.raised)
    /\ last.raised => last.exit = last.log[Len(last.log)].code
    /\ (~last.raised /\ last.inRoot /\ ~(last.op = "resume" /\ branch = Trunk))
         => last.exit = 0

\* ------------------------------------------------------------ C13
\* C13: from every state, a stop() that follows a stop() raises nothing (its
\* four commands exit 0) and leaves the stash list, the checked-out branch
\* and the working copy as the first stop() left them: no entry is added.
C13_StopIdempotent ==
  LET w1 == stop(World, 0)
      w2 == stop(w1, 0)
  IN  /\ ~w1.raised =>
           /\ ~w2.raised
           /\ Len(w2.log) = Len(w1.log) + Len(StopCommands)
           /\ w2.stash = w1.stash
           /\ w2.made = w1.made
           /\ w2.branch = w1.branch
           /\ w2.wc = w1.wc
      /\ Completed("stop") =>
           /\ ~w1.raised
           /\ w1.stash = stash /\ w1.branch = branch /\ w1.wc = wc

\* A stop() that completed after it parked a ticket's changes: the state a
\* second stop() starts from.
C13_Witness ==
  /\ Completed("stop")
  /\ Len(last.log) = Len(StopCommands)
  /\ branch = Trunk /\ wc = Clean
  /\ stash # <<>> /\ stash[1].serial = made /\ IsTicketBranch(stash[1].on)

\* ------------------------------------------------------------ C14
\* The world a second start(t) leaves when it is run right after the start(t)
\* that just completed, every command of it exiting with the expected code.
StartAgain == start(World, last.ticket, TRUE, 0, TRUE, 1)

C15_CreateOrSwitchKeepsBranch ==
  [][\A t \in Tickets :
       ( /\ last'.op = "start" /\ last'.ticket = t
         /\ \E i \in 1..Len(last'.log) :
              /\ last'.log[i].cmd[1] = "git checkout -B"
              /\ last'.log[i].code = 0 )
       => /\ branch' = BranchName(t)
          /\ BranchName(t) \in branches'
          /\ BranchName(t) \notin branches => tip'[t] = FALSE
          /\ BranchName(t) \in branches => tip'[t] = tip[t]]_vars

\* ------------------------------------------------------------ C16
\* The commands kill() issues before its drain loop: those of stop(), the
\* session quit and the branch deletion.
BeforeDrain == Len(StopCommands) + 2

\* C16: when kill(t) completes with N snapshots tagged t in the stash list at
\* the start of its drain loop, the loop has issued N + 1 queries of the stash
\* list and N drops, a query before each drop and a last one that finds
\* nothing; the k-th drop names the newest snapshot tagged t still in the
\* list, so the snapshots go newest first.  And stash_list(t) asked again
\* with nothing removed gives the same reference again.
C16_DrainTerminatesAfterN ==
  [][/\ \A t \in Tickets :
          (last'.op = "kill" /\ last'.ticket = t /\ ~last'.raised)
          => LET N    == Len(Tagged(AfterStop, t))
                 refs == RefsTagged(AfterStop, t, 1)
                 loop == SubSeq(last'.log, BeforeDrain + 1, Len(last'.log))
             IN  /\ Len(loop) = 2 * N + 1
                 /\ \A k \in 1..(N + 1) : loop[2 * k - 1].cmd[1] = "git stash list"
                 /\ \A k \in 1..N :
                      /\ loop[2 * k].cmd = <<"git stash drop", <<refs[k][1] - (k - 1)>>>>
                      /\ last'.dropped[k] = Tagged(AfterStop, t)[k]
                 /\ Len(last'.dropped) = N
     /\ \A t \in Tickets :
          LET g1 == stash_list(World, t, 0)
              g2 == stash_list(g1.w, t, 0)
          IN  g2.ref = g1.ref /\ g2.w.stash = stash]_vars

\* A kill whose loop dropped two snapshots of its ticket, with three queries.
C16_Witness ==
  /\ Completed("kill")
  /\ Cardinality(Issued("git stash drop")) = 2
  /\ Cardinality(Issued("git stash list")) = 3
  /\ \E u \in Tickets : u # last.ticket /\ BranchName(u) \in branches

\* ------------------------------------------------------------ C17
\* The world as the next invocation of the tool finds it: a new process, with
\* nothing issued and nothing raised yet.
NextInvocation(w) ==
  [w EXCEPT !.log = <<>>, !.raised = FALSE, !.popped = <<>>, !.dropped = <<>>,
            !.exec = NoExec, !.exit = 0, !.inRoot = TRUE]

\* start(u) and then start(t), no pop conflicting; r1 and r2 are the exit
\* codes of the two `git reset HEAD .`.
RoundTrip(t, u, r1, r2) ==
  start(NextInvocation(start(World, u, TRUE, 0, TRUE, r1)), t, TRUE, 0, TRUE, r2)

\* C17: when #t is checked out with uncommitted changes W and no snapshot is
\* tagged t, start(u) followed by start(t) for another ticket u, no command
\* failing fatally and no pop conflicting, leaves #t checked out, the working
\* copy holding exactly W with nothing unmerged, and no snapshot tagged t in
\* the stash list.
C17_RoundTripRestores ==
  \A t \in Tickets, u \in Tickets :
    ( /\ t # u
      /\ last = Idle
      /\ branch = BranchName(t)
      /\ wc.changes # {} /\ ~wc.unmerged
      /\ Tagged(stash, t) = <<>> )
    => \A r1 \in {0, 1}, r2 \in {0, 1} :
         /\ RoundTrip(t, u, r1, r2).branch = BranchName(t)
         /\ RoundTrip(t, u, r1, r2).wc = wc
         /\ Tagged(RoundTrip(t, u, r1, r2).stash, t) = <<>>
         /\ Len(RoundTrip(t, u, r1, r2).popped) = 1
         /\ r2 = 1 => RoundTrip(t, u, r1, r2).exec = <<"-DRR", BranchName(t)>>

\* The end of a round trip: start(t) completed having restored the one
\* snapshot of t, while another ticket, started before, has its branch and
\* its own snapshot parked.
C17_Witness ==
  /\ Completed("start") /\ last.exec # NoExec
  /\ branch = BranchName(last.ticket)
  /\ Len(last.popped) = 1
  /\ wc = [changes |-> last.popped[1].changes, unmerged |-> FALSE]
  /\ Tagged(stash, last.ticket) = <<>>
  /\ \E u \in Tickets :
       /\ u # last.ticket
       /\ BranchName(u) \in branches
       /\ BranchName(u) \in sessions
       /\ Tagged(stash, u) # <<>>

\* ------------------------------------------------------------ C18
\* C18: whenever start or resume hands over to screen, the session it names
\* is the branch checked out at that moment, a ticket branch: start(t) names
\* #t with -DRR and #t is checked out, resume names the current branch with
\* -r.
C18_SessionNamesCheckedOutBranch ==
  last.exec # NoExec =>
    /\ last.op \in {"start", "resume"}
    /\ last.exec[2] = branch
    /\ IsTicketBranch(branch)
    /\ last.op = "start" => last.exec = <<"-DRR", BranchName(last.ticket)>>
    /\ last.op = "resume" => last.exec[1] = "-r"

\* resume handed over to the session of the ticket that was stopped last,
\* while another ticket has a session too.
C18_Witness ==
  /\ last.op = "resume" /\ last.exec # NoExec
  /\ \E u \in Tickets : BranchName(u) # branch /\ BranchName(u) \in sessions

\* ------------------------------------------------------------ C19
\* C19: start(t) and kill(t), whatever their outcome, apply and drop only
\* snapshots tagged t; for every other ticket u the snapshots tagged u are
\* afterwards those that were there before, in the same order, with at most
\* the one on top that the initial stop() saved when #u was checked out with
\* changes in the working copy.
C19_OtherTicketsSnapshotsKept ==
  [][\A t \in Tickets :
       (last'.op \in {"start", "kill"} /\ last'.ticket = t)
       => /\ \A k \in 1..Len(last'.popped) : last'.popped[k].on = BranchName(t)
          /\ \A k \in 1..Len(last'.dropped) : last'.dropped[k].on = BranchName(t)
          /\ \A u \in Tickets \ {t} :
               \/ Tagged(stash', u) = Tagged(stash, u)
               \/ /\ branch = BranchName(u) /\ wc.changes # {}
                  /\ Tagged(stash', u) = Tagged(AfterStop, u)
                  /\ Len(Tagged(stash', u)) = Len(Tagged(stash, u)) + 1]_vars

\* kill(t) dropped a snapshot of t that lay under a snapshot of another
\* ticket, which is still there.
C19_Witness ==
  /\ Completed("kill")
  /\ last.dropped # <<>>
  /\ \E i \in Issued("git stash drop") : last.log[i].cmd[2] # <<0>>
  /\ \E u \in Tickets : u # last.ticket /\ Tagged(stash, u) # <<>>

=============================================================================
